---- MODULE Spec2Model ----
(***************************************************************************)
(* Contaminant screening of mzXML spectra: the matcher and the aggregator  *)
(* of the two application variants, file-4e5.py ("4e5") and file56.py      *)
(* ("56"), and the run of each Streamlit app.                              *)
(*                                                                         *)
(* m/z values and tolerances are fixed-point integers in units of 1e-4 Da  *)
(* (391.2843 is 3912843, the default tolerance 0.5 is 5000), so that a     *)
(* distance is compared with the tolerance exactly.                        *)
(***************************************************************************)
EXTENDS Integers, Sequences, FiniteSets, TLC

(* Bounds of the analysed inputs. *)
MaxSpectra == 2
MaxPeaks == 2

(* tolerance=0.5 in both signatures and both call sites. *)
DefaultTolerance == 5000

VARIABLES
    app,        \* which variant runs: "4e5" or "56"
    pc,         \* position of the run
    spectra,    \* experiment.getSpectra(): sequence of [mzs, intensities]
    table,      \* the reference table passed to find_contaminants
    tolerance,  \* the tolerance passed to find_contaminants
    hits,       \* what find_contaminants returned: [err, value]
    summary,    \* what the aggregation returned: [err, value]
    runs,       \* number of completed match+aggregate passes on this input
    prevHits,   \* hits of the previous pass
    prevSummary, \* summary of the previous pass
    report      \* what generate_pdf_report wrote: [err, value]

vars == <<app, pc, spectra, table, tolerance, hits, summary, runs, prevHits, prevSummary, report>>

----------------------------------------------------------------------------
(* Reference tables. A Python dict keeps insertion order, so a table is a  *)
(* sequence of [category, entries], entries a sequence of [mz, name].      *)

Entry(mz, name) == [mz |-> mz, name |-> name]
Category(c, entries) == [category |-> c, entries |-> entries]

CONTAMINANT_CLASSES ==
    << Category("Polymers", << Entry(3912843, "PEG/PPG"),
                               Entry(4290887, "Polysiloxane"),
                               Entry(4451200, "Polyethylene glycol") >>),
       Category("Detergents", << Entry(3112843, "Triton X"),
                                 Entry(5223554, "Tween"),
                                 Entry(2711747, "SDS derivative") >>),
       Category("Plasticizers", << Entry(3912843, "Phthalate"),
                                   Entry(4473091, "DEHP"),
                                   Entry(2791596, "DBP") >>),
       Category("Others", << Entry(3711012, "Unknown contaminant"),
                             Entry(4152662, "Solvent impurity"),
                             Entry(5033376, "Calibration standard") >>) >>

CONTAMINANT_CATEGORIES ==
    << Category("Polymers", << Entry(3912843, "PEG/PPG"), Entry(4290887, "Polysiloxane") >>),
       Category("Detergents", << Entry(3112843, "Triton X"), Entry(5223554, "Tween") >>),
       Category("Plasticizers", << Entry(4473091, "DEHP"), Entry(2791596, "DBP") >>),
       Category("Oxidation Products", << Entry(2011234, "Oxidized lipid"), Entry(2171345, "Oxidized peptide") >>),
       Category("Adducts", << Entry(3654567, "Sodium adduct"), Entry(3814678, "Potassium adduct") >>),
       Category("In-source Fragments", << Entry(1570890, "Fragment A"), Entry(1730999, "Fragment B") >>),
       Category("Solvent Peaks", << Entry(890626, "Acetonitrile"), Entry(590498, "Methanol") >>),
       Category("Calibration Standards", << Entry(5191230, "Cal Standard 1"), Entry(5331340, "Cal Standard 2") >>),
       Category("Background Noise", << Entry(1011010, "Background A"), Entry(1151111, "Background B") >>),
       Category("Salt Clusters", << Entry(2032020, "NaCl cluster"), Entry(2192121, "KCl cluster") >>),
       Category("Lipids", << Entry(7605850, "Phosphatidylcholine"), Entry(7866050, "Phosphatidylethanolamine") >>),
       Category("Peptides", << Entry(5003000, "Dipeptide"), Entry(7504500, "Tripeptide") >>),
       Category("Carbohydrates", << Entry(3651054, "Disaccharide"), Entry(5271789, "Trisaccharide") >>),
       Category("Metabolites", << Entry(1800634, "Glucose"), Entry(1980735, "Fructose") >>),
       Category("Environmental", << Entry(2561233, "Pesticide A"), Entry(2841455, "Pesticide B") >>) >>

----------------------------------------------------------------------------
(* Inputs of the analysis. *)

(* The reference tables tried: the two compiled-in tables and the empty one. *)
Tables == { <<>>, CONTAMINANT_CLASSES, CONTAMINANT_CATEGORIES }

(* The tolerances tried: negative, zero and the default. *)
Tolerances == { 0 - DefaultTolerance, 0, DefaultTolerance }

(* Peak m/z values tried: the target 391.2843 (listed under Polymers and     *)
(* Plasticizers in CONTAMINANT_CLASSES) and the upper boundary of its default *)
(* window; and 365.2000, within 0.5 of both 365.4567 (Adducts) and 365.1054   *)
(* (Carbohydrates) of CONTAMINANT_CATEGORIES and below every window of        *)
(* CONTAMINANT_CLASSES.                                                       *)
MzValues == { 3652000, 3912843, 3917843 }

RECURSIVE ExperimentsOf(_, _)
(* The m/z arrays of n spectra that hold at most p peaks in all. *)
ExperimentsOf(n, p) ==
    IF n = 0 THEN { <<>> }
    ELSE UNION { { <<a>> \o r : a \in [1..k -> MzValues], r \in ExperimentsOf(n - 1, p - k) }
                 : k \in 0..p }

(* Experiments of at most MaxSpectra spectra holding at most MaxPeaks peaks in all. *)
Experiments == UNION { ExperimentsOf(n, MaxPeaks) : n \in 0..MaxSpectra }

(* The intensity array of a spectrum: n values, all different. *)
Intensities(n) == [i \in 1..n |-> 1000 * i]

(* A spectrum; a malformed one has lost the last value of its intensity array. *)
Spectrum(mzs, malformed) ==
    [mzs |-> mzs,
     intensities |-> Intensities(IF malformed /\ Len(mzs) > 0 THEN Len(mzs) - 1 ELSE Len(mzs))]

(* The experiment e with the arrays of spectrum `bad` mismatched (bad = 0: none). *)
MakeSpectra(e, bad) == [i \in 1..Len(e) |-> Spectrum(e[i], i = bad)]

Abs(x) == IF x < 0 THEN 0 - x ELSE x


RECURSIVE Flatten(_)
(* The lists of ss appended one after the other (list.append in loop order). *)
Flatten(ss) == IF ss = <<>> THEN <<>> ELSE Head(ss) \o Flatten(Tail(ss))

NoError == "none"
Returned(v) == [err |-> NoError, value |-> v]
Raised(e) == [err |-> e, value |-> <<>>]
NotRun == [err |-> "not run", value |-> <<>>]

----------------------------------------------------------------------------
(* file-4e5.py: find_contaminants *)

(* faulty variant: the distance taken without np.abs *)
within_4e5_signed(mz, target_mz, tol) == mz - target_mz <= tol

(* np.abs(mz_array - target_mz) <= tolerance, for one peak *)
within_4e5(mz, target_mz, tol) == Abs(mz - target_mz) <= tol

RECURSIVE indices_4e5_descending(_, _, _, _)
(* faulty variant: the matching indices in descending order *)
indices_4e5_descending(mz_array, target_mz, tol, from) ==
    IF from > Len(mz_array) THEN <<>>
    ELSE indices_4e5_descending(mz_array, target_mz, tol, from + 1)
         \o (IF Abs(mz_array[from] - target_mz) <= tol THEN <<from>> ELSE <<>>)

RECURSIVE indices_4e5(_, _, _, _)
(* np.where(...)[0]: the matching peak indices from `from` on, ascending (1-based) *)
indices_4e5(mz_array, target_mz, tol, from) ==
    IF from > Len(mz_array) THEN <<>>
    ELSE (IF within_4e5(mz_array[from], target_mz, tol) THEN <<from>> ELSE <<>>)
         \o indices_4e5(mz_array, target_mz, tol, from + 1)

(* the dictionary appended for peak idx *)
hit_4e5(spec_index, class_name, desc, spec, idx) ==
    [Spectrum |-> spec_index,
     Class |-> class_name,
     Contaminant |-> desc,
     Observed_mz |-> spec.mzs[idx],
     Intensity |-> spec.intensities[idx]]

(* faulty variant: only the first matching peak of an entry is recorded *)
entry_hits_4e5_first(spec_index, class_name, entry, spec, tol) ==
    LET indices == indices_4e5(spec.mzs, entry.mz, tol, 1)
    IN  IF indices = <<>> THEN <<>>
        ELSE << hit_4e5(spec_index, class_name, entry.name, spec, indices[1]) >>

(* for idx in indices: contaminant_hits.append(...) *)
entry_hits_4e5(spec_index, class_name, entry, spec, tol) ==
    LET indices == indices_4e5(spec.mzs, entry.mz, tol, 1)
    IN  [k \in 1..Len(indices) |-> hit_4e5(spec_index, class_name, entry.name, spec, indices[k])]

(* the two inner loops over one spectrum: classes, then targets *)
spectrum_hits_4e5(spec_index, spec, contaminant_classes, tol) ==
    Flatten([c \in 1..Len(contaminant_classes) |->
        Flatten([j \in 1..Len(contaminant_classes[c].entries) |->
            entry_hits_4e5(spec_index, contaminant_classes[c].category,
                           contaminant_classes[c].entries[j], spec, tol)])])

(* intensity_array[idx] with idx past the end of the intensity array *)
index_error_4e5(experiment, contaminant_classes, tol) ==
    \E s \in 1..Len(experiment), c \in 1..Len(contaminant_classes) :
        \E j \in 1..Len(contaminant_classes[c].entries) :
            \E idx \in 1..Len(experiment[s].mzs) :
                /\ within_4e5(experiment[s].mzs[idx], contaminant_classes[c].entries[j].mz, tol)
                /\ idx > Len(experiment[s].intensities)

find_contaminants_4e5(experiment, contaminant_classes, tol) ==
    IF index_error_4e5(experiment, contaminant_classes, tol)
    THEN Raised("IndexError")
    ELSE Returned(Flatten([s \in 1..Len(experiment) |->
             spectrum_hits_4e5(s - 1, experiment[s], contaminant_classes, tol)]))

----------------------------------------------------------------------------
(* file56.py: find_contaminants *)

(* np.abs(mzs - mz) < tolerance, for one peak *)
within_56(peak_mz, mz, tol) == Abs(peak_mz - mz) < tol

RECURSIVE matches_56(_, _, _, _)
(* np.where(...)[0]: the matching peak indices from `from` on, ascending (1-based) *)
matches_56(mzs, mz, tol, from) ==
    IF from > Len(mzs) THEN <<>>
    ELSE (IF within_56(mzs[from], mz, tol) THEN <<from>> ELSE <<>>)
         \o matches_56(mzs, mz, tol, from + 1)

(* faulty variant: the intensity is taken from the last matching peak *)
entry_hits_56_last(spectrum_idx, entry, spectrum, tol) ==
    LET matches == matches_56(spectrum.mzs, entry.mz, tol, 1)
    IN  IF Len(matches) > 0
        THEN << [spectrum_idx |-> spectrum_idx,
                 mz |-> entry.mz,
                 name |-> entry.name,
                 intensity |-> spectrum.intensities[matches[Len(matches)]]] >>
        ELSE <<>>

(* if len(matches) > 0: hits[category].append(...) with intensities[matches[0]] *)
entry_hits_56(spectrum_idx, entry, spectrum, tol) ==
    LET matches == matches_56(spectrum.mzs, entry.mz, tol, 1)
    IN  IF Len(matches) > 0
        THEN << [spectrum_idx |-> spectrum_idx,
                 mz |-> entry.mz,
                 name |-> entry.name,
                 intensity |-> spectrum.intensities[matches[1]]] >>
        ELSE <<>>

(* intensities[matches[0]] with matches[0] past the end of the intensity array *)
index_error_56(experiment, contaminant_categories, tol) ==
    \E s \in 1..Len(experiment), c \in 1..Len(contaminant_categories) :
        \E j \in 1..Len(contaminant_categories[c].entries) :
            LET matches == matches_56(experiment[s].mzs, contaminant_categories[c].entries[j].mz, tol, 1)
            IN  Len(matches) > 0 /\ matches[1] > Len(experiment[s].intensities)

(* hits[category]: the hits of one category, in spectrum then entry order *)
category_hits_56(experiment, cat, tol) ==
    Flatten([s \in 1..Len(experiment) |->
        Flatten([j \in 1..Len(cat.entries) |->
            entry_hits_56(s - 1, cat.entries[j], experiment[s], tol)])])

find_contaminants_56(experiment, contaminant_categories, tol) ==
    IF index_error_56(experiment, contaminant_categories, tol)
    THEN Raised("IndexError")
    ELSE Returned([c \in 1..Len(contaminant_categories) |->
             [category |-> contaminant_categories[c].category,
              hits |-> category_hits_56(experiment, contaminant_categories[c], tol)]])

----------------------------------------------------------------------------
(* The aggregators *)

(* sort_values(..., ascending=False) on the counts: the order of the rows, *)
(* descending by count, rows with equal counts in their input order (the   *)
(* sort is a function of its input).                                       *)
argsort_desc(counts) ==
    LET n == Len(counts)
        rank(i) == 1 + Cardinality({j \in 1..n : counts[j] > counts[i]})
                     + Cardinality({j \in 1..(i - 1) : counts[j] = counts[i]})
    IN  [p \in 1..n |-> CHOOSE i \in 1..n : rank(i) = p]

(* the rows in the order sort_values gives them *)
sort_values_desc(rows, counts) ==
    LET order == argsort_desc(counts) IN [p \in 1..Len(rows) |-> rows[order[p]]]

RECURSIVE unique_classes(_, _)
(* the classes of the hits from `from` on that no earlier hit has, in order of first appearance *)
unique_classes(contaminant_hits, from) ==
    IF from > Len(contaminant_hits) THEN <<>>
    ELSE (IF \E j \in 1..(from - 1) : contaminant_hits[j].Class = contaminant_hits[from].Class
          THEN <<>> ELSE << contaminant_hits[from].Class >>)
         \o unique_classes(contaminant_hits, from + 1)

(* faulty variant: counts the distinct contaminants of a class (nunique), not its hits *)
class_summary_4e5_nunique(contaminant_hits) ==
    IF contaminant_hits = <<>> THEN <<>>
    ELSE LET classes == unique_classes(contaminant_hits, 1)
             rows == [k \in 1..Len(classes) |->
                        [Class |-> classes[k],
                         Count |-> Cardinality({contaminant_hits[i].Contaminant :
                                      i \in {m \in 1..Len(contaminant_hits) :
                                               contaminant_hits[m].Class = classes[k]}})]]
         IN  sort_values_desc(rows, [k \in 1..Len(rows) |-> rows[k].Count])

(* file-4e5.py: df['Class'].value_counts().to_dict() if not df.empty else {} *)
class_summary_4e5(contaminant_hits) ==
    IF contaminant_hits = <<>> THEN <<>>
    ELSE LET classes == unique_classes(contaminant_hits, 1)
             rows == [k \in 1..Len(classes) |->
                        [Class |-> classes[k],
                         Count |-> Cardinality({i \in 1..Len(contaminant_hits) :
                                                  contaminant_hits[i].Class = classes[k]})]]
         IN  sort_values_desc(rows, [k \in 1..Len(rows) |-> rows[k].Count])

(* file-4e5.py: the total the report prints, len(contaminant_hits) *)
total_hits_4e5(contaminant_hits) == Len(contaminant_hits)

HasHits(row) == row.Hits > 0

(* faulty variant: categories without hits are left out of the summary *)
generate_contaminant_summary_omitting(hits_by_category) ==
    LET rows == [c \in 1..Len(hits_by_category) |->
                    [Category |-> hits_by_category[c].category,
                     Hits |-> Len(hits_by_category[c].hits)]]
        kept == SelectSeq(rows, HasHits)
    IN  Returned(sort_values_desc(kept, [k \in 1..Len(kept) |-> kept[k].Hits]))

(* file56.py: generate_contaminant_summary *)
generate_contaminant_summary(hits_by_category) ==
    LET rows == [c \in 1..Len(hits_by_category) |->
                    [Category |-> hits_by_category[c].category,
                     Hits |-> Len(hits_by_category[c].hits)]]
    IN  IF rows = <<>>
        THEN Raised("KeyError")     \* DataFrame([]) has no "Hits" column to sort by
        ELSE Returned(sort_values_desc(rows, [k \in 1..Len(rows) |-> rows[k].Hits]))

RECURSIVE SumLen(_)
SumLen(hits_by_category) ==
    IF hits_by_category = <<>> THEN 0
    ELSE Len(Head(hits_by_category).hits) + SumLen(Tail(hits_by_category))

(* file56.py: total_hits = sum(len(category_hits) for category_hits in hits.values()) *)
total_hits_56(hits_by_category) == SumLen(hits_by_category)

----------------------------------------------------------------------------
(* Matcher and aggregator on arbitrary inputs, run up to MaxRuns times. *)

MaxRuns == 2

Init ==
    /\ app \in {"4e5", "56"}
    /\ pc = "start"
    /\ \E e \in Experiments, bad \in 0..MaxSpectra :
           /\ bad <= Len(e)
           /\ spectra = MakeSpectra(e, bad)
    /\ table \in Tables
    /\ tolerance \in Tolerances
    /\ hits = NotRun
    /\ summary = NotRun
    /\ runs = 0
    /\ prevHits = NotRun
    /\ prevSummary = NotRun
    /\ report = NotRun

Inputs == <<app, spectra, table, tolerance>>

(* faulty variant: the hit list outlives the call and the next pass appends to it *)
Match4e5_accumulating ==
    /\ app = "4e5" /\ pc = "start"
    /\ LET found == find_contaminants_4e5(spectra, table, tolerance)
       IN  hits' = IF found.err = NoError /\ hits.err = NoError
                   THEN Returned(hits.value \o found.value) ELSE found
    /\ pc' = IF hits'.err = NoError THEN "matched" ELSE "failed"
    /\ UNCHANGED <<Inputs, summary, runs, prevHits, prevSummary, report>>

(* file-4e5.py: contaminant_hits = find_contaminants(experiment, classes, tolerance) *)
Match4e5 ==
    /\ app = "4e5" /\ pc = "start"
    /\ hits' = find_contaminants_4e5(spectra, table, tolerance)
    /\ pc' = IF hits'.err = NoError THEN "matched" ELSE "failed"
    /\ UNCHANGED <<Inputs, summary, runs, prevHits, prevSummary, report>>

(* file56.py: hits = find_contaminants(experiment, categories, tolerance) *)
Match56 ==
    /\ app = "56" /\ pc = "start"
    /\ hits' = find_contaminants_56(spectra, table, tolerance)
    /\ pc' = IF hits'.err = NoError THEN "matched" ELSE "failed"
    /\ UNCHANGED <<Inputs, summary, runs, prevHits, prevSummary, report>>

(* file-4e5.py: the value_counts grouping of the hits *)
Summarize4e5 ==
    /\ app = "4e5" /\ pc = "matched"
    /\ summary' = Returned(class_summary_4e5(hits.value))
    /\ pc' = "summarized"
    /\ runs' = runs + 1
    /\ UNCHANGED <<Inputs, hits, prevHits, prevSummary, report>>

(* file56.py: summary_df = generate_contaminant_summary(hits) *)
Summarize56 ==
    /\ app = "56" /\ pc = "matched"
    /\ summary' = generate_contaminant_summary(hits.value)
    /\ pc' = IF summary'.err = NoError THEN "summarized" ELSE "failed"
    /\ runs' = runs + 1
    /\ UNCHANGED <<Inputs, hits, prevHits, prevSummary, report>>

(* The same input analysed again (Streamlit reruns the script). *)
Rerun ==
    /\ pc = "summarized" /\ runs < MaxRuns
    /\ prevHits' = hits
    /\ prevSummary' = summary
    /\ pc' = "start"
    /\ UNCHANGED <<Inputs, hits, summary, runs, report>>

Next == Match4e5 \/ Match56 \/ Summarize4e5 \/ Summarize56 \/ Rerun

Spec == Init /\ [][Next]_vars

----------------------------------------------------------------------------
(* The two Streamlit apps: one run per uploaded file. *)

(* file56.py: for i in range(10) / np.random.uniform(50, 1000, 100) *)
NumMockSpectra == 10
NumMockPeaks == 100

(* np.random.uniform(50, 1000, 100): the low end of the m/z range, 50.0000, *)
(* which is near no target; the peaks that no case is about are put there.  *)
MockMzLow == 500000

(* What the first random peak of a mock spectrum may be: near no target, on *)
(* 391.2843 (Polymers), or within 0.5 of both Adducts and Carbohydrates.    *)
MockMzValues == { MockMzLow, 3912843, 3652000 }

(* file56.py: MockSpectrum(mzs, intensities) with NumMockPeaks random peaks *)
MockSpectrum(first) ==
    [mzs |-> [i \in 1..NumMockPeaks |-> IF i = 1 THEN first ELSE MockMzLow],
     intensities |-> Intensities(NumMockPeaks)]

(* faulty variant: one spectrum more than range(10) gives *)
MockExperiment_one_more(first, near) ==
    [s \in 1..(NumMockSpectra + 1) |-> MockSpectrum(IF s <= near THEN first ELSE MockMzLow)]

(* file56.py: MockExperiment().spectra; the first `near` spectra hold the peak `first` *)
MockExperiment(first, near) ==
    [s \in 1..NumMockSpectra |-> MockSpectrum(IF s <= near THEN first ELSE MockMzLow)]

(* file-4e5.py: df.head(20) and add_table(..., max_rows=20) *)
TopHitsRows == 20
TableMaxRows == 20

(* df.head(n): the first n rows, or all of them when there are fewer *)
head(df, n) == SubSeq(df, 1, IF Len(df) < n THEN Len(df) ELSE n)

(* file-4e5.py: the row of the "Top Contaminant Hits" table made of one hit. *)
(* The m/z is printed with 4 decimals (the fixed-point value) and the        *)
(* intensity with none; the intensities of the model are whole numbers.      *)
table_row(row) ==
    [Class |-> row.Class, Contaminant |-> row.Contaminant,
     Observed_mz |-> row.Observed_mz, Intensity |-> row.Intensity]

(* file-4e5.py: PDFReport.add_table: the rows printed, and the count of the  *)
(* "... and N more rows" line (0: no such line)                              *)
add_table(data, max_rows) ==
    [rows |-> head(data, max_rows),
     more |-> IF Len(data) > max_rows THEN Len(data) - max_rows ELSE 0]

(* no "Top Contaminant Hits" page: `if contaminant_hits:` is false *)
NoTable == [rows |-> <<>>, more |-> 0]

(* faulty variant: the first 20 hits are taken before they are sorted *)
top_hits_table_4e5_head_first(contaminant_hits) ==
    IF contaminant_hits = <<>> THEN NoTable
    ELSE LET first == head(contaminant_hits, TopHitsRows)
             df == sort_values_desc(first, [k \in 1..Len(first) |-> first[k].Intensity])
         IN  add_table([k \in 1..Len(df) |-> table_row(df[k])], TableMaxRows)

(* file-4e5.py: generate_pdf_report, the table of top contaminant hits *)
top_hits_table_4e5(contaminant_hits) ==
    IF contaminant_hits = <<>> THEN NoTable
    ELSE LET df == sort_values_desc(contaminant_hits,
                       [k \in 1..Len(contaminant_hits) |-> contaminant_hits[k].Intensity])
             top == head(df, TopHitsRows)
         IN  add_table([k \in 1..Len(top) |-> table_row(top[k])], TableMaxRows)

(* faulty variant: df['Class'] taken without the `if not df.empty` guard *)
generate_pdf_report_4e5_unguarded(contaminant_hits, total_spectra, plot_filenames) ==
    IF contaminant_hits = <<>> THEN Raised("KeyError")
    ELSE Returned([total_spectra |-> total_spectra,
                   total_hits |-> total_hits_4e5(contaminant_hits),
                   summary |-> class_summary_4e5(contaminant_hits),
                   plots |-> plot_filenames,
                   top |-> top_hits_table_4e5(contaminant_hits)])

(* file-4e5.py: generate_pdf_report, the data it writes. An empty hit list  *)
(* gives an empty DataFrame and class_summary = {}.                         *)
generate_pdf_report_4e5(contaminant_hits, total_spectra, plot_filenames) ==
    Returned([total_spectra |-> total_spectra,
              total_hits |-> total_hits_4e5(contaminant_hits),
              summary |-> class_summary_4e5(contaminant_hits),
              plots |-> plot_filenames,
              top |-> top_hits_table_4e5(contaminant_hits)])

(* file56.py: generate_pdf_report, the data it writes *)
generate_pdf_report_56(hits_by_category, total_spectra, plot_filename) ==
    LET summary_df == generate_contaminant_summary(hits_by_category)
    IN  IF summary_df.err # NoError THEN summary_df
        ELSE Returned([total_spectra |-> total_spectra,
                       total_hits |-> total_hits_56(hits_by_category),
                       summary |-> summary_df.value,
                       plots |-> plot_filename])

(* file-4e5.py: plot_contaminants_by_class / _by_intensity return None for no hits *)
plot_filenames_4e5(contaminant_hits) ==
    IF contaminant_hits = <<>> THEN <<>>
    ELSE << "contaminants_by_class.png", "contaminants_by_intensity.png" >>

RECURSIVE SumHits(_)
SumHits(rows) == IF rows = <<>> THEN 0 ELSE Head(rows).Hits + SumHits(Tail(rows))

(* file56.py: plot_contaminant_summary returns None for an empty or all-zero summary *)
plot_contaminant_summary(summary_df) ==
    IF summary_df = <<>> \/ SumHits(summary_df) = 0 THEN <<>> ELSE << "contaminant_plot.png" >>

InitApp ==
    /\ app \in {"4e5", "56"}
    /\ pc = "awaiting"
    /\ spectra = <<>>
    /\ table = IF app = "4e5" THEN CONTAMINANT_CLASSES ELSE CONTAMINANT_CATEGORIES
    /\ tolerance = DefaultTolerance
    /\ hits = NotRun
    /\ summary = NotRun
    /\ runs = 0
    /\ prevHits = NotRun
    /\ prevSummary = NotRun
    /\ report = NotRun

(* uploaded_file is not None *)
Upload ==
    /\ pc = "awaiting"
    /\ pc' = "uploaded"
    /\ UNCHANGED <<Inputs, hits, summary, runs, prevHits, prevSummary, report>>

(* file-4e5.py: experiment = load_mzxml(uploaded_file): pyopenms parses the *)
(* file into spectra with parallel arrays, or raises on a file it cannot read *)
AppLoad4e5 ==
    /\ app = "4e5" /\ pc = "uploaded"
    /\ \/ \E e \in Experiments : spectra' = MakeSpectra(e, 0) /\ pc' = "loaded"
       \/ spectra' = spectra /\ pc' = "error"
    /\ UNCHANGED <<app, table, tolerance, hits, summary, runs, prevHits, prevSummary, report>>

(* file56.py: experiment = load_mzxml(uploaded_file): the mock experiment *)
AppLoad56 ==
    /\ app = "56" /\ pc = "uploaded"
    /\ \E first \in MockMzValues, near \in 0..NumMockSpectra :
           spectra' = MockExperiment(first, near)
    /\ pc' = "loaded"
    /\ UNCHANGED <<app, table, tolerance, hits, summary, runs, prevHits, prevSummary, report>>

(* file-4e5.py: contaminant_hits = find_contaminants(experiment, tolerance=0.5) *)
AppMatch4e5 ==
    /\ app = "4e5" /\ pc = "loaded"
    /\ hits' = find_contaminants_4e5(spectra, CONTAMINANT_CLASSES, DefaultTolerance)
    /\ pc' = IF hits'.err = NoError THEN "matched" ELSE "error"
    /\ UNCHANGED <<Inputs, summary, runs, prevHits, prevSummary, report>>

(* file56.py: hits = find_contaminants(experiment, CONTAMINANT_CATEGORIES, 0.5) *)
AppMatch56 ==
    /\ app = "56" /\ pc = "loaded"
    /\ hits' = find_contaminants_56(spectra, CONTAMINANT_CATEGORIES, DefaultTolerance)
    /\ pc' = IF hits'.err = NoError THEN "matched" ELSE "error"
    /\ UNCHANGED <<Inputs, summary, runs, prevHits, prevSummary, report>>

(* file-4e5.py: the per-class counts written to the page, or "No contaminant hits found." *)
AppSummarize4e5 ==
    /\ app = "4e5" /\ pc = "matched"
    /\ summary' = Returned(class_summary_4e5(hits.value))
    /\ pc' = "summarized"
    /\ UNCHANGED <<Inputs, hits, runs, prevHits, prevSummary, report>>

(* file56.py: summary_df = generate_contaminant_summary(hits); st.dataframe(summary_df) *)
AppSummarize56 ==
    /\ app = "56" /\ pc = "matched"
    /\ summary' = generate_contaminant_summary(hits.value)
    /\ pc' = IF summary'.err = NoError THEN "summarized" ELSE "error"
    /\ UNCHANGED <<Inputs, hits, runs, prevHits, prevSummary, report>>

(* file-4e5.py: both plots (when there are hits), then the PDF report and st.success *)
AppReport4e5 ==
    /\ app = "4e5" /\ pc = "summarized"
    /\ report' = generate_pdf_report_4e5(hits.value, Len(spectra), plot_filenames_4e5(hits.value))
    /\ pc' = IF report'.err = NoError THEN "reported" ELSE "error"
    /\ UNCHANGED <<Inputs, hits, summary, runs, prevHits, prevSummary>>

(* file56.py: if fig: plot, PDF report and st.success; else: st.warning and no report *)
AppReport56 ==
    /\ app = "56" /\ pc = "summarized"
    /\ IF plot_contaminant_summary(summary.value) # <<>>
       THEN /\ report' = generate_pdf_report_56(hits.value, Len(spectra),
                                                plot_contaminant_summary(summary.value))
            /\ pc' = IF report'.err = NoError THEN "reported" ELSE "error"
       ELSE /\ report' = report
            /\ pc' = "warned"
    /\ UNCHANGED <<Inputs, hits, summary, runs, prevHits, prevSummary>>

NextApp ==
    \/ Upload
    \/ AppLoad4e5 \/ AppLoad56
    \/ AppMatch4e5 \/ AppMatch56
    \/ AppSummarize4e5 \/ AppSummarize56
    \/ AppReport4e5 \/ AppReport56

AppSpec == InitApp /\ [][NextApp]_vars

----------------------------------------------------------------------------
(* Properties of the matcher *)

(* find_contaminants has returned a hit collection for the current input *)
HitsReturned == hits.err = NoError

(* the peaks of spectrum s (1-based) with both an m/z and an intensity *)
PeaksOf(s) == 1..Len(spectra[s].mzs)

(* the (category, entry) positions of the reference table *)
EntriesOfTable ==
    UNION { { <<c, j>> : j \in 1..Len(table[c].entries) } : c \in 1..Len(table) }

(* the hit records of file56, over all categories *)
AllHits56 == UNION { { hits.value[c].hits[i] : i \in 1..Len(hits.value[c].hits) }
                     : c \in 1..Len(hits.value) }

(* C1: every hit refers to a peak of the spectrum at its spectrum index, the *)
(* index is a valid 0-based index, and the peak's m/z is within tolerance of *)
(* the target mass of the hit's reference entry.                             *)
C1_HitsWithinTolerance ==
    HitsReturned =>
        IF app = "4e5"
        THEN \A i \in 1..Len(hits.value) :
               LET h == hits.value[i] IN
               /\ h.Spectrum \in 0..(Len(spectra) - 1)
               /\ \E p \in PeaksOf(h.Spectrum + 1) :
                     /\ spectra[h.Spectrum + 1].mzs[p] = h.Observed_mz
                     /\ p <= Len(spectra[h.Spectrum + 1].intensities)
                     /\ spectra[h.Spectrum + 1].intensities[p] = h.Intensity
               /\ \E t \in EntriesOfTable :
                     /\ table[t[1]].category = h.Class
                     /\ table[t[1]].entries[t[2]].name = h.Contaminant
                     /\ Abs(h.Observed_mz - table[t[1]].entries[t[2]].mz) <= tolerance
        ELSE \A c \in 1..Len(hits.value) : \A i \in 1..Len(hits.value[c].hits) :
               LET h == hits.value[c].hits[i] IN
               /\ h.spectrum_idx \in 0..(Len(spectra) - 1)
               /\ hits.value[c].category = table[c].category
               /\ \E j \in 1..Len(table[c].entries) :
                     table[c].entries[j].mz = h.mz /\ table[c].entries[j].name = h.name
               /\ \E p \in PeaksOf(h.spectrum_idx + 1) :
                     /\ Abs(spectra[h.spectrum_idx + 1].mzs[p] - h.mz) <= tolerance
                     /\ p <= Len(spectra[h.spectrum_idx + 1].intensities)
                     /\ spectra[h.spectrum_idx + 1].intensities[p] = h.intensity

(* a hit in the second spectrum for a peak off the exact target mass *)
C1_Witness ==
    /\ HitsReturned /\ app = "56" /\ Len(spectra) = 2
    /\ \E h \in AllHits56 : h.spectrum_idx = 1 /\ h.name = "Sodium adduct"

(* the combinations (spectrum, category, entry, peak) with the peak within tolerance *)
Combos ==
    UNION { { <<s, e[1], e[2], p>> : p \in { q \in PeaksOf(s) :
                Abs(spectra[s].mzs[q] - table[e[1]].entries[e[2]].mz) <= tolerance } }
            : <<s, e>> \in (1..Len(spectra)) \X EntriesOfTable }

(* the hit record the combination t stands for *)
ComboHit(t) ==
    [Spectrum |-> t[1] - 1,
     Class |-> table[t[2]].category,
     Contaminant |-> table[t[2]].entries[t[3]].name,
     Observed_mz |-> spectra[t[1]].mzs[t[4]],
     Intensity |-> spectra[t[1]].intensities[t[4]]]

(* C2: the hit list of file-4e5 holds exactly one hit per combination       *)
(* (spectrum, category, entry, peak) within tolerance, and nothing else.    *)
C2_OneHitPerCombination ==
    (HitsReturned /\ app = "4e5") =>
        /\ Len(hits.value) = Cardinality(Combos)
        /\ \A t \in Combos :
              Cardinality({ i \in 1..Len(hits.value) : hits.value[i] = ComboHit(t) })
                = Cardinality({ u \in Combos : ComboHit(u) = ComboHit(t) })
        /\ \A i \in 1..Len(hits.value) : \E t \in Combos : hits.value[i] = ComboHit(t)

(* two peaks of one spectrum near 391.2843, each hit under Polymers and Plasticizers *)
C2_Witness ==
    /\ HitsReturned /\ app = "4e5" /\ table = CONTAMINANT_CLASSES
    /\ Len(spectra) = 1 /\ spectra[1].mzs = << 3912843, 3917843 >>
    /\ Len(hits.value) = 4

(* t comes before u in traversal order: spectrum, category, entry, peak *)
LexLess(t, u) ==
    \E k \in 1..4 : t[k] < u[k] /\ \A m \in 1..(k - 1) : t[m] = u[m]

HasHit56(s, c, j) ==
    \E i \in 1..Len(hits.value[c].hits) :
        /\ hits.value[c].hits[i].spectrum_idx = s - 1
        /\ hits.value[c].hits[i].name = table[c].entries[j].name
        /\ hits.value[c].hits[i].mz = table[c].entries[j].mz

(* C3: the tolerance window includes its boundary in both variants: a peak at *)
(* exactly target + tolerance or target - tolerance produces a hit, and a     *)
(* peak farther than tolerance from the target produces none.                 *)
C3_BoundaryInclusive ==
    (HitsReturned /\ tolerance >= 0) =>
        \A s \in 1..Len(spectra) : \A e \in EntriesOfTable :
            LET target == table[e[1]].entries[e[2]].mz
                onBoundary == { p \in PeaksOf(s) : Abs(spectra[s].mzs[p] - target) = tolerance }
                inside == { p \in PeaksOf(s) : Abs(spectra[s].mzs[p] - target) <= tolerance }
            IN  IF app = "4e5"
                THEN /\ \A p \in onBoundary :
                           \E i \in 1..Len(hits.value) : hits.value[i] = ComboHit(<<s, e[1], e[2], p>>)
                     /\ \A p \in PeaksOf(s) \ inside :
                           ~ \E i \in 1..Len(hits.value) :
                                 /\ hits.value[i].Spectrum = s - 1
                                 /\ hits.value[i].Class = table[e[1]].category
                                 /\ hits.value[i].Contaminant = table[e[1]].entries[e[2]].name
                                 /\ hits.value[i].Observed_mz = spectra[s].mzs[p]
                ELSE /\ onBoundary # {} => HasHit56(s, e[1], e[2])
                     /\ inside = {} => ~ HasHit56(s, e[1], e[2])

----------------------------------------------------------------------------
(* Properties of the aggregators *)

RECURSIVE SumCounts(_)
SumCounts(rows) == IF rows = <<>> THEN 0 ELSE Head(rows).Count + SumCounts(Tail(rows))

(* the aggregation of the current hits has returned *)
Summarized == pc = "summarized" /\ summary.err = NoError

(* C5: each per-category count of the summary is the number of hits of that *)
(* category, no category is listed twice, and the counts add up to the      *)
(* total number of hits that the report prints.                             *)
C5_CountsMatchHits ==
    Summarized =>
        LET rows == summary.value IN
        IF app = "4e5"
        THEN /\ \A k \in 1..Len(rows) :
                   rows[k].Count = Cardinality({ i \in 1..Len(hits.value) :
                                                   hits.value[i].Class = rows[k].Class })
             /\ \A k, m \in 1..Len(rows) : rows[k].Class = rows[m].Class => k = m
             /\ SumCounts(rows) = total_hits_4e5(hits.value)
             /\ SumCounts(rows) = Len(hits.value)
        ELSE /\ \A k \in 1..Len(rows) :
                   \E c \in 1..Len(hits.value) :
                       /\ hits.value[c].category = rows[k].Category
                       /\ rows[k].Hits = Len(hits.value[c].hits)
             /\ \A k, m \in 1..Len(rows) : rows[k].Category = rows[m].Category => k = m
             /\ SumHits(rows) = total_hits_56(hits.value)
             /\ SumHits(rows) = Cardinality(AllHits56)

(* a summary of two classes with two hits each *)
C5_Witness ==
    /\ Summarized /\ app = "4e5"
    /\ Len(summary.value) = 2
    /\ summary.value[1].Count = 2 /\ summary.value[2].Count = 2

(* the aggregator has run on the hits of an empty spectrum sequence *)
AggregatedEmpty == spectra = <<>> /\ pc \in {"summarized", "failed"}

(* C6 as stated: with no spectra, both variants return no hits and an empty *)
(* summary list, without an error.                                          *)
C6_EmptySummaryBothVariants ==
    AggregatedEmpty =>
        /\ HitsReturned
        /\ IF app = "4e5" THEN hits.value = <<>> ELSE AllHits56 = {}
        /\ summary = Returned(<<>>)

(* C6 amended: with no spectra, file-4e5 returns an empty hit list and an   *)
(* empty summary; file56 returns one empty hit list per category of the     *)
(* table and its summary lists every category of the table with 0 hits, in  *)
(* table order; for an empty table generate_contaminant_summary raises.     *)
C6_EmptySpectraSummary ==
    AggregatedEmpty =>
        /\ HitsReturned
        /\ IF app = "4e5"
           THEN hits.value = <<>> /\ summary = Returned(<<>>)
           ELSE /\ AllHits56 = {}
                /\ Len(hits.value) = Len(table)
                /\ IF table = <<>>
                   THEN summary.err = "KeyError" /\ pc = "failed"
                   ELSE summary = Returned([c \in 1..Len(table) |->
                                     [Category |-> table[c].category, Hits |-> 0]])

(* file56 has summarized no spectra against its 15 categories *)
C6_Witness ==
    /\ AggregatedEmpty /\ app = "56" /\ table = CONTAMINANT_CATEGORIES
    /\ Len(summary.value) = 15

----------------------------------------------------------------------------
(* Error handling of the matcher *)

(* some spectrum has m/z and intensity arrays of different lengths *)
Malformed == \E s \in 1..Len(spectra) : Len(spectra[s].mzs) # Len(spectra[s].intensities)

(* find_contaminants has run on the current input *)
MatcherDone == hits # NotRun

(* C8: for a spectrum with arrays of different lengths (and a valid          *)
(* configuration) the matcher fails and never returns a hit list.           *)
C8_MalformedSpectrumFails ==
    (Malformed /\ tolerance >= 0 /\ table # <<>> /\ MatcherDone) => hits.err # NoError

(* C9: for a negative tolerance or an empty reference table (and well-formed *)
(* spectra) the matcher fails and never returns a hit collection.            *)
C9_BadConfigurationFails ==
    ((tolerance < 0 \/ table = <<>>) /\ ~ Malformed /\ MatcherDone) => hits.err # NoError

----------------------------------------------------------------------------
(* The app runs *)

(* the matcher has returned and found nothing (also: there were no spectra) *)
NoHitsFound ==
    HitsReturned /\ (IF app = "4e5" THEN hits.value = <<>> ELSE AllHits56 = {})

(* the run of the app is over *)
RunOver == pc \in {"reported", "warned", "error"}

(* C10 as stated: in both apps a run without hits never enters the error  *)
(* branch and ends with its report produced.                              *)
C10_NoHitsStillReported ==
    (NoHitsFound /\ RunOver) => (pc = "reported" /\ report.err = NoError)

(* C10 amended: a run without hits never enters the error branch; in       *)
(* file-4e5 it ends with the report produced, holding a total of 0 hits,   *)
(* an empty summary, no plots and no table; in file56 it ends after the aggregation  *)
(* with the "no contaminants detected" warning and no report.              *)
C10_NoHitsIsNoError ==
    NoHitsFound =>
        /\ pc # "error"
        /\ RunOver =>
              IF app = "4e5"
              THEN /\ pc = "reported"
                   /\ report = Returned([total_spectra |-> Len(spectra), total_hits |-> 0,
                                         summary |-> <<>>, plots |-> <<>>, top |-> NoTable])
              ELSE /\ pc = "warned"
                   /\ report = NotRun
                   /\ summary.err = NoError /\ SumHits(summary.value) = 0

(* file56 has ended a run without hits *)
C10_Witness == app = "56" /\ NoHitsFound /\ RunOver

----------------------------------------------------------------------------
(* The report of file-4e5 on more hits than its table of top hits holds. *)

MaxTopPeaks == 11

(* Intensity arrays of n values between 1000 and 100000, in four shapes. *)
TopProfiles == { "ascending", "descending", "constant", "alternating" }

TopIntensities(profile, n) ==
    [i \in 1..n |->
        CASE profile = "ascending" -> 1000 * i
          [] profile = "descending" -> 1000 * (n + 1 - i)
          [] profile = "constant" -> 50000
          [] OTHER -> IF i % 2 = 1 THEN 1000 * i ELSE 100000 - 1000 * i]

(* A spectrum of n peaks on 391.2843, each a hit under Polymers and Plasticizers. *)
TopSpectrum(profile, n) ==
    [mzs |-> [i \in 1..n |-> 3912843], intensities |-> TopIntensities(profile, n)]

(* the app of file-4e5 after load_mzxml has returned one such spectrum *)
InitTop ==
    /\ app = "4e5"
    /\ pc = "loaded"
    /\ \E profile \in TopProfiles, n \in 0..MaxTopPeaks : spectra = << TopSpectrum(profile, n) >>
    /\ table = CONTAMINANT_CLASSES
    /\ tolerance = DefaultTolerance
    /\ hits = NotRun
    /\ summary = NotRun
    /\ runs = 0
    /\ prevHits = NotRun
    /\ prevSummary = NotRun
    /\ report = NotRun

NextTop == AppMatch4e5 \/ AppSummarize4e5 \/ AppReport4e5

TopSpec == InitTop /\ [][NextTop]_vars

(* the "Top Contaminant Hits" table of the report just written *)
TopTable == report.value.top

Min(a, b) == IF a < b THEN a ELSE b

(* C11: the table of top hits holds min(20, number of hits) rows in          *)
(* non-increasing intensity order; every row is a hit of its own, and every  *)
(* hit whose intensity is greater than that of some row is in the table.     *)
C11_TopHitsTable ==
    (app = "4e5" /\ pc = "reported") =>
        LET rows == TopTable.rows
            all == hits.value
        IN  /\ Len(rows) = Min(20, Len(all))
            /\ TopTable.more = 0
            /\ \A i, j \in 1..Len(rows) : i < j => rows[i].Intensity >= rows[j].Intensity
            /\ \A k \in 1..Len(rows) :
                  Cardinality({ m \in 1..Len(rows) : rows[m] = rows[k] })
                    <= Cardinality({ i \in 1..Len(all) : table_row(all[i]) = rows[k] })
            /\ \A k \in 1..Len(rows) :
                  Cardinality({ i \in 1..Len(all) : all[i].Intensity > rows[k].Intensity })
                    = Cardinality({ m \in 1..Len(rows) : rows[m].Intensity > rows[k].Intensity })

(* 22 hits, of which the table holds the 20 with the highest intensities *)
C11_Witness ==
    /\ app = "4e5" /\ pc = "reported"
    /\ Len(hits.value) > 20
    /\ Len(TopTable.rows) = 20
    /\ TopTable.rows[1].Intensity > TopTable.rows[20].Intensity
    /\ hits.value[1].Intensity < TopTable.rows[20].Intensity

----------------------------------------------------------------------------
(* The first-match policy of file56 *)

(* The matcher and the aggregator of file56 alone, on the same inputs. *)
Init56 == Init /\ app = "56"

Next56 == Match56 \/ Summarize56 \/ Rerun

Spec56 == Init56 /\ [][Next56]_vars

(* the peaks of spectrum s that file56 takes as matching entry j of category c: *)
(* those strictly within tolerance of its target                                *)
MatchingPeaks56(s, c, j) ==
    { p \in PeaksOf(s) : Abs(spectra[s].mzs[p] - table[c].entries[j].mz) < tolerance }

(* the (spectrum, entry) pairs of category c with at least one matching peak *)
MatchedPairs56(c) ==
    { t \in (1..Len(spectra)) \X (1..Len(table[c].entries)) : MatchingPeaks56(t[1], c, t[2]) # {} }

(* the positions in the hit list of category c of the hits for spectrum s and entry j *)
HitsFor56(s, c, j) ==
    { i \in 1..Len(hits.value[c].hits) :
        /\ hits.value[c].hits[i].spectrum_idx = s - 1
        /\ hits.value[c].hits[i].name = table[c].entries[j].name
        /\ hits.value[c].hits[i].mz = table[c].entries[j].mz }

(* C12: file56 records, under the entry's category, exactly one hit for every *)
(* (spectrum, entry) pair with a matching peak and none for any other pair;   *)
(* the hit carries the intensity of the matching peak with the lowest index;  *)
(* so the hits of a category number the pairs with a match, not the peaks.    *)
C12_FirstMatchPolicy ==
    (HitsReturned /\ app = "56") =>
        \A c \in 1..Len(table) :
            /\ hits.value[c].category = table[c].category
            /\ Len(hits.value[c].hits) = Cardinality(MatchedPairs56(c))
            /\ \A s \in 1..Len(spectra) : \A j \in 1..Len(table[c].entries) :
                  IF MatchingPeaks56(s, c, j) = {}
                  THEN HitsFor56(s, c, j) = {}
                  ELSE /\ Cardinality(HitsFor56(s, c, j)) = 1
                       /\ \A i \in HitsFor56(s, c, j) :
                             \E p \in MatchingPeaks56(s, c, j) :
                                 /\ \A q \in MatchingPeaks56(s, c, j) : p <= q
                                 /\ hits.value[c].hits[i].intensity = spectra[s].intensities[p]

(* two peaks of one spectrum match "Sodium adduct": one hit, with the intensity of the first *)
C12_Witness ==
    /\ HitsReturned /\ app = "56" /\ table = CONTAMINANT_CATEGORIES
    /\ Len(spectra) = 1 /\ spectra[1].mzs = << 3652000, 3652000 >>
    /\ Len(hits.value[5].hits) = 1
    /\ hits.value[5].hits[1].name = "Sodium adduct"
    /\ hits.value[5].hits[1].intensity = spectra[1].intensities[1]
    /\ spectra[1].intensities[1] # spectra[1].intensities[2]

----------------------------------------------------------------------------
(* The mock loader of file56 *)

(* load_mzxml of file56 has returned *)
Loaded56 == app = "56" /\ pc \notin {"awaiting", "uploaded"}

(* C13: in the file56 app every run analyses exactly 10 spectra of 100 peaks *)
(* each with m/z between 50 and 1000, reports a total of 10 spectra, gives   *)
(* every hit a spectrum index between 0 and 9 and gives no reference entry   *)
(* more than 10 hits.                                                        *)
C13_TenMockSpectra ==
    Loaded56 =>
        /\ Len(spectra) = 10
        /\ \A s \in 1..Len(spectra) :
              /\ Len(spectra[s].mzs) = 100
              /\ Len(spectra[s].intensities) = 100
              /\ \A p \in 1..Len(spectra[s].mzs) :
                    spectra[s].mzs[p] >= 500000 /\ spectra[s].mzs[p] <= 10000000
        /\ HitsReturned =>
              \A c \in 1..Len(hits.value) :
                  /\ \A i \in 1..Len(hits.value[c].hits) :
                        hits.value[c].hits[i].spectrum_idx \in 0..9
                  /\ \A j \in 1..Len(table[c].entries) :
                        Cardinality({ i \in 1..Len(hits.value[c].hits) :
                            hits.value[c].hits[i].name = table[c].entries[j].name }) <= 10
        /\ pc = "reported" => report.value.total_spectra = 10

(* a reported run in which "PEG/PPG" is hit in each of the 10 spectra *)
C13_Witness ==
    /\ Loaded56 /\ pc = "reported"
    /\ report.value.total_spectra = 10
    /\ Len(hits.value[1].hits) = 10
    /\ hits.value[1].hits[10].spectrum_idx = 9

====
